---- MODULE Spec2Model ----
(***************************************************************************)
(* A model of pyScienceMode2/sciencemode.py (class RehastimGeneric): the   *)
(* ScienceMode2 frame codec, the frame reassembler, the telemetry decoders *)
(* and ring buffers, and the threads that share the link state (caller,    *)
(* watchdog loops, Motomed reader loop).                                    *)
(*                                                                         *)
(* Python indexes from 0 and TLA+ sequences from 1: At(p, i) is p[i].      *)
(* Time is a discrete clock in ticks of 100 ms.                            *)
(***************************************************************************)
EXTENDS Integers, Sequences, FiniteSets, TLC

VARIABLES
    \* ---- fields of RehastimGeneric
    packet_count, time_last_cmd, reha_connected, packet_send_history,
    last_ack, last_init_ack, motomed_values, last_phase_result,
    is_motomed_connected, thread_watchdog, lock, event, event_ack,
    \* ---- the serial port and the clock
    port_out, port_in, now,
    \* ---- the threads: caller, watchdog loops, Motomed reader loop
    caller, wd, reader,
    \* ---- pure-function harness (codec, reassembler, decoders)
    fn_in, fn_out,
    \* ---- history (never read by the program's actions)
    hist

vars == <<packet_count, time_last_cmd, reha_connected, packet_send_history,
          last_ack, last_init_ack, motomed_values, last_phase_result,
          is_motomed_connected, thread_watchdog, lock, event, event_ack,
          port_out, port_in, now, caller, wd, reader, fn_in, fn_out, hist>>

-----------------------------------------------------------------------------
(* Class attributes.                                                       *)

START_BYTE == 240
STOP_BYTE == 15
STUFFING_BYTE == 129
STUFFING_KEY == 85
MAX_PACKET_BYTES == 69
STUFFED_BYTES == {240, 15, 129, 85, 10}

\* Python's None where a sequence is expected (a mailbox, a buffer): the
\* empty sequence, which the code's truth tests treat alike. An optional
\* argument is << >> for None and <<x>> for the value x.
None == << >>

At(p, i) == p[i + 1]

\* Python slices p[a:b] and p[a:], clipped to the sequence as Python does.
Slice(p, a, b) ==
    LET hi == IF b < Len(p) THEN b ELSE Len(p)
    IN  IF a >= hi THEN << >> ELSE SubSeq(p, a + 1, hi)

SliceFrom(p, a) == Slice(p, a, Len(p))

-----------------------------------------------------------------------------
(* Integer bit operations (Python's & and ^ on ints).                      *)

RECURSIVE BitAnd(_, _)
BitAnd(a, b) ==
    IF a = 0 \/ b = 0 THEN 0
    ELSE (IF a % 2 = 1 /\ b % 2 = 1 THEN 1 ELSE 0)
         + 2 * BitAnd(a \div 2, b \div 2)

\* a ^ k for a key 0 <= k < 256 and any integer a (two's complement): only
\* the low eight bits of a change.
XorKey(a, k) ==
    LET lo == a % 256
    IN  (a - lo) + (lo + k - 2 * BitAnd(lo, k))

-----------------------------------------------------------------------------
(* Frame codec.                                                            *)

\* _stuff_byte: (byte & ~KEY) | (~byte & KEY); the two operands of | have no
\* bit in common, so | is their sum.
StuffByte(byte) ==
    (byte - BitAnd(byte, STUFFING_KEY))
    + (STUFFING_KEY - BitAnd(byte, STUFFING_KEY))

\* _stuff_packet_byte(packet, command_data=True): marker + stuffed byte.
RECURSIVE StuffData(_)
StuffData(packet) ==
    IF packet = << >> THEN << >>
    ELSE (IF Head(packet) \in STUFFED_BYTES
             THEN <<STUFFING_BYTE, StuffByte(Head(packet))>>
             ELSE <<Head(packet)>>)
         \o StuffData(Tail(packet))

\* _stuff_packet_byte(packet): in place, no marker.
StuffHeader(packet) ==
    [i \in 1..Len(packet) |->
        IF packet[i] \in STUFFED_BYTES THEN StuffByte(packet[i]) ELSE packet[i]]

StuffPacketByte(packet, command_data) ==
    IF command_data THEN StuffData(packet) ELSE StuffHeader(packet)

\* crccheck.crc.Crc8: polynomial 0x07, initial value 0, no reflection. The
\* bytes are folded in their order, one half of the sequence after the other.
RECURSIVE Crc8Shift(_, _)
Crc8Shift(c, n) ==
    IF n = 0 THEN c
    ELSE LET next == IF c >= 128 THEN XorKey((2 * c) % 256, 7) ELSE 2 * c
         IN  IF next >= 0 THEN Crc8Shift(next, n - 1) ELSE next

RECURSIVE Crc8From(_, _)
Crc8From(c, data) ==
    IF data = << >> THEN c
    ELSE IF Len(data) = 1 THEN Crc8Shift(XorKey(c, data[1]), 8)
    ELSE LET half == Len(data) \div 2
             mid  == Crc8From(c, SubSeq(data, 1, half))
         IN  IF mid >= 0 THEN Crc8From(mid, SubSeq(data, half + 1, Len(data)))
             ELSE mid

Crc8(data) == Crc8From(0, data)

\* _packet_construction(packet_count, packet_type, packet_data); packet_type
\* is given by its code, packet_data is None or <<the list of data bytes>>.
PacketConstruction(count, packet_command, packet_data) ==
    LET header  == StuffPacketByte(<<count, packet_command>>, FALSE)
        payload == IF packet_data # None
                      THEN header \o StuffPacketByte(packet_data[1], TRUE)
                      ELSE header
        checksum    == StuffByte(Crc8(payload))
        data_length == StuffByte(Len(payload))
    IN  <<START_BYTE, STUFFING_BYTE, checksum, STUFFING_BYTE, data_length>>
        \o payload \o <<STOP_BYTE>>

-----------------------------------------------------------------------------
(* Frame reassembler: what _read_packet does with the bytes of one read    *)
(* cycle once the accumulation loop has ended.                             *)

\* bytes.index(b) where b occurs in p: its first position.
IndexOf(p, b) ==
    (CHOOSE i \in 1..Len(p) : p[i] = b /\ \A j \in 1..(i - 1) : p[j] # b) - 1

Contains(p, b) == \E i \in 1..Len(p) : p[i] = b

\* The while loop of lines 431-434. The accumulation loop ends only on a
\* buffer whose last byte is STOP_BYTE, so every non-empty packet_tmp here
\* holds a stop byte.
RECURSIVE SplitFrames(_)
SplitFrames(packet_tmp) ==
    IF Len(packet_tmp) = 0 THEN << >>
    ELSE LET next_stop_byte == IndexOf(packet_tmp, STOP_BYTE)
         IN  <<Slice(packet_tmp, 0, next_stop_byte + 1)>>
             \o SplitFrames(SliceFrom(packet_tmp, next_stop_byte + 1))

\* What _read_packet returns for the accumulated bytes: ret = "list" with the
\* list of frames, "None" (the function falls off its end, line 428 false) or
\* "ValueError" (no start byte for bytes.index, line 429).
PacketList(packet) ==
    IF Len(packet) > 8
       THEN IF Contains(packet, START_BYTE)
               THEN [ret |-> "list",
                     list |-> SplitFrames(SliceFrom(packet, IndexOf(packet, START_BYTE)))]
               ELSE [ret |-> "ValueError", list |-> << >>]
       ELSE [ret |-> "None", list |-> << >>]

-----------------------------------------------------------------------------
(* Telemetry decoders and ring buffers.                                    *)

\* utils.signed_int on a slice of at most one byte: int.from_bytes(..,
\* signed=True); the empty slice is 0.
SignedInt(bs) ==
    IF Len(bs) = 0 THEN 0
    ELSE IF bs[1] >= 128 THEN bs[1] - 256 ELSE bs[1]

max_motomed_values == 100
max_phase_result == 1

\* Lines 180-197: the sample decoded from an Actual-Values packet, or
\* IndexError when an indexed byte lies beyond the packet. In Python + binds
\* tighter than ^, so line 182 is (255 * msb + packet[9]) ^ STUFFING_KEY.
ActualValuesDecode(packet) ==
    IF Len(packet) <= 8 THEN [ok |-> FALSE]
    ELSE
    LET esc1   == At(packet, 8) = 129
        count1 == IF esc1 THEN 1 ELSE 0
    IN  IF (esc1 /\ Len(packet) <= 9) \/ Len(packet) <= 10 + count1
           THEN [ok |-> FALSE]
        ELSE
        LET angle  == IF esc1
                         THEN XorKey(255 * SignedInt(Slice(packet, 7, 8)) + At(packet, 9),
                                     STUFFING_KEY)
                         ELSE 255 * SignedInt(Slice(packet, 7, 8)) + At(packet, 8)
            esc2   == At(packet, 10 + count1) = 129
            speed  == IF esc2
                         THEN XorKey(SignedInt(Slice(packet, 10 + count1 + 1, 10 + count1 + 2)),
                                     STUFFING_KEY)
                         ELSE SignedInt(Slice(packet, 10, 11))
            count2 == IF esc2 THEN count1 + 1 ELSE count1
        IN  IF Len(packet) <= 12 + count2 THEN [ok |-> FALSE]
            ELSE
            LET esc3   == At(packet, 12 + count2) = 129
                torque == IF esc3
                             THEN XorKey(SignedInt(Slice(packet, 12 + count2 + 1,
                                                         12 + count2 + 2)),
                                         STUFFING_KEY)
                             ELSE SignedInt(Slice(packet, 12, 13))
            IN  [ok |-> TRUE, angle |-> angle, speed |-> speed, torque |-> torque]

\* Lines 208-242: fifteen bytes at fixed offsets 8..22; the sample keeps the
\* fields the decoder computes and "None" for those it leaves unset.
PhaseResultDecode(packet) ==
    IF Len(packet) <= 22 THEN [ok |-> FALSE]
    ELSE [ok |-> TRUE,
          passive_distance      |-> At(packet, 8) * 255 + At(packet, 9),
          active_distance       |-> "None",
          average_power         |-> At(packet, 12),
          maximum_power         |-> At(packet, 13),
          phase_duration        |-> "None",
          active_phase_duration |-> "None",
          phase_work            |-> "None",
          success_value         |-> At(packet, 20),
          symmetry              |-> At(packet, 21),
          average_muscle_tone   |-> At(packet, 22)]

\* RingAppend with the capacity test off by one (<= for <).
RingAppendOffByOne(buffer, sample, capacity) ==
    IF buffer = None THEN <<sample>>
    ELSE IF Len(buffer) <= capacity THEN Append(buffer, sample)
    ELSE Append(SliceFrom(buffer, 1), sample)

\* Lines 200-205 and 244-249: a buffer is None, or a sequence of columns.
RingAppend(buffer, sample, capacity) ==
    IF buffer = None THEN <<sample>>
    ELSE IF Len(buffer) < capacity THEN Append(buffer, sample)
    ELSE Append(SliceFrom(buffer, 1), sample)

-----------------------------------------------------------------------------
(* The command table (pyScienceMode2.enums.Type): name -> code.            *)

InitCode == 1
InitAckCode == 2
WatchdogCode == 4
GetStimulationModeCode == 10
GetStimulationModeAckCode == 11
ActualValuesCode == 60
PhaseResultCode == 65
MotomedCommandDoneCode == 89
ReservedCode == 90

TypeValues ==
    {InitCode, InitAckCode, WatchdogCode, GetStimulationModeCode,
     GetStimulationModeAckCode, ActualValuesCode, PhaseResultCode,
     MotomedCommandDoneCode}

-----------------------------------------------------------------------------
(* Bounds of the model.                                                    *)

MaxWatchdogs == 2      \* InitAck sends, each starting one watchdog thread
MaxCalls == 3          \* calls the caller makes (sends, is_connected, disconnect)
MaxRx == 1             \* frames the device delivers
MaxFrames == 2         \* frames encoded into one read cycle
MaxPayload == 2        \* data bytes of an encoded frame
MaxSamples == 105      \* Actual-Values frames decoded
MaxPhases == 3         \* Phase-Result frames decoded
StartTime == 13        \* time.time() at construction, in ticks since the epoch
MaxTicks == 6          \* ticks the clock advances
MaxLongPayload == 64   \* data bytes of a long encoded frame
MaxSends == 257        \* sends of the single sending thread
MaxDeliveries == 2     \* frames the device delivers to the reader loop alone
MaxStray == 2          \* stray bytes in one read cycle

\* 0.5 s and 1.2 s in ticks of 100 ms.
WatchdogPeriod == 5
LivenessWindow == 12

-----------------------------------------------------------------------------
(* Threads. Thread 0 is the caller, 1..MaxWatchdogs are watchdog threads   *)
(* in the order they are started; the reader loop has its own record.      *)
(* A thread inside _send_generic_packet is at one of                       *)
(*   "write" (lines 285-291), "bk1" (292-294, up to the read of            *)
(*   packet_count), "bk2" (294-299, from the store of packet_count).       *)

Caller == 0
Watchdogs == 1..MaxWatchdogs
Free == -1
NoThread == 0

Local(t) == IF t = Caller THEN caller ELSE wd[t]

SetLocal(t, r) ==
    IF t = Caller
       THEN caller' = r /\ UNCHANGED wd
       ELSE wd' = [wd EXCEPT ![t] = r] /\ UNCHANGED caller

IdleLocal == [pc |-> "idle", cmd |-> 0, packet |-> << >>, tmp |-> 0, id |-> 0, wake |-> 0]

\* The command code of a frame (byte 6) and its sequence number (byte 5).
FrameCmd(f) == At(f, 6)
FrameSeq(f) == At(f, 5)

-----------------------------------------------------------------------------
(* State after __init__ (lines 77-116).                                    *)

InitHist ==
    [nsend   |-> 0,                      \* sends started
     writes  |-> << >>,                  \* per written frame: whose, when, and
                                         \* the caller and the flag at that time
     ncall   |-> 0,                      \* calls the caller has made
     ic      |-> [called |-> FALSE],     \* the last is_connected() call
     kaFalse |-> [w \in Watchdogs |-> 0],\* keep-alives written with the flag clear
     nrx     |-> 0,                      \* frames the device has sent
     disp    |-> [called |-> FALSE],     \* the last frame dispatched, and the
                                         \* consumers before it
     sig     |-> FALSE,                  \* a completion was signalled after the
                                         \* last write
     stored  |-> << >>,                  \* frames stored in a mailbox, in order
     returned |-> << >>,                 \* frames _get_last_ack has returned
     av      |-> << >>,                  \* Actual-Values samples decoded, in order
     pr      |-> << >>]                  \* Phase-Result samples decoded, in order

InitObject(with_motomed) ==
    /\ packet_count = 0
    /\ time_last_cmd = 0
    /\ reha_connected = FALSE
    /\ packet_send_history = << >>
    /\ last_ack = None
    /\ last_init_ack = None
    /\ motomed_values = None
    /\ last_phase_result = None
    /\ is_motomed_connected = with_motomed
    /\ thread_watchdog = NoThread
    /\ lock = Free
    /\ event = FALSE
    /\ event_ack = FALSE
    /\ port_out = << >>
    /\ port_in = << >>
    /\ now = StartTime
    /\ caller = IdleLocal
    /\ wd = [w \in Watchdogs |-> [IdleLocal EXCEPT !.pc = "off"]]
    /\ reader = [pc |-> IF with_motomed THEN "top" ELSE "off",
                 acc |-> << >>, packets |-> << >>, crashed |-> FALSE]
    /\ hist = InitHist

\* RehastimGeneric(port): no Motomed session.
Init ==
    /\ InitObject(FALSE)
    /\ fn_in = << >>
    /\ fn_out = << >>

\* RehastimGeneric(port, with_motomed=True): the reader thread is started.
InitMotomed ==
    /\ InitObject(TRUE)
    /\ fn_in = << >>
    /\ fn_out = << >>

objectVars == <<packet_count, time_last_cmd, reha_connected, packet_send_history,
                last_ack, last_init_ack, motomed_values, last_phase_result,
                is_motomed_connected, thread_watchdog, lock, event, event_ack>>
fnVars == <<fn_in, fn_out>>

-----------------------------------------------------------------------------
(* _send_generic_packet, lines 285-299, run by thread t.                   *)

\* lines 285-291: lock.acquire() once the lock is free, port.write(packet),
\* InitAck marks the link connected, lock.release(). The critical section
\* is one step: nothing else reads or writes the port's output.
Write(t) ==
    LET l == Local(t)
        connected == IF l.cmd = InitAckCode THEN TRUE ELSE reha_connected
    IN
    /\ l.pc = "write"
    /\ lock = Free
    /\ port_out' = Append(port_out, l.packet)
    /\ reha_connected' = connected
    /\ lock' = Free
    /\ SetLocal(t, [l EXCEPT !.pc = "bk1"])
    /\ hist' = [hist EXCEPT
                  !.writes = Append(@, [id |-> l.id, by |-> t, cmd |-> l.cmd,
                                        time |-> now,
                                        idle |-> caller.pc = "idle",
                                        flag |-> reha_connected]),
                  !.sig = FALSE,
                  !.kaFalse = [w \in Watchdogs |->
                                 IF connected THEN 0
                                 ELSE IF w = t /\ l.cmd = WatchdogCode THEN @[w] + 1
                                 ELSE @[w]]]
    /\ UNCHANGED <<packet_count, time_last_cmd, packet_send_history,
                   last_ack, last_init_ack, motomed_values, last_phase_result,
                   is_motomed_connected, thread_watchdog, event, event_ack,
                   port_in, now, reader, fnVars>>

\* lines 292-294: the timestamp, the history, and the read of packet_count
\* for the increment
Bookkeep1(t) ==
    LET l == Local(t) IN
    /\ l.pc = "bk1"
    /\ time_last_cmd' = now
    /\ packet_send_history' = l.packet
    /\ SetLocal(t, [l EXCEPT !.pc = "bk2", !.tmp = packet_count])
    /\ UNCHANGED <<packet_count, reha_connected,
                   last_ack, last_init_ack, motomed_values, last_phase_result,
                   is_motomed_connected, thread_watchdog, lock, event, event_ack,
                   port_out, port_in, now, reader, fnVars, hist>>

\* Where _send_generic_packet returns to: the caller is idle again, the
\* watchdog loop sleeps 0.5 s (line 258).
Returned(t, l) ==
    IF t = Caller
       THEN [l EXCEPT !.pc = "idle"]
       ELSE [l EXCEPT !.pc = "sleep", !.wake = now + WatchdogPeriod]

\* Bookkeep2 with the store of line 294 without its modulus.
Bookkeep2NoWrap(t) ==
    LET l == Local(t) IN
    /\ l.pc = "bk2"
    /\ packet_count' = l.tmp + 1
    /\ event_ack' = FALSE
    /\ event' = (l.cmd = InitAckCode)
    /\ SetLocal(t, Returned(t, l))
    /\ UNCHANGED <<time_last_cmd, reha_connected, packet_send_history,
                   last_ack, last_init_ack, motomed_values, last_phase_result,
                   is_motomed_connected, thread_watchdog, lock,
                   port_out, port_in, now, reader, fnVars, hist>>

\* lines 294-299: the store of packet_count, both events cleared, the
\* completion event set again for InitAck
Bookkeep2(t) ==
    LET l == Local(t) IN
    /\ l.pc = "bk2"
    /\ packet_count' = (l.tmp + 1) % 256
    /\ event_ack' = FALSE
    /\ event' = (l.cmd = InitAckCode)
    /\ SetLocal(t, Returned(t, l))
    /\ UNCHANGED <<time_last_cmd, reha_connected, packet_send_history,
                   last_ack, last_init_ack, motomed_values, last_phase_result,
                   is_motomed_connected, thread_watchdog, lock,
                   port_out, port_in, now, reader, fnVars, hist>>

SendStep(t) == Write(t) \/ Bookkeep1(t) \/ Bookkeep2(t)

-----------------------------------------------------------------------------
(* The caller.                                                             *)

\* _send_generic_packet("InitAck", ..), lines 276-279: the packet is built
\* from the packet number the caller passes (the current packet_count, as on
\* line 257), the completion event is set and _start_watchdog (lines 451-453)
\* marks the link connected and starts a new watchdog thread.
SendInitAck ==
    /\ caller.pc = "idle"
    /\ \E w \in Watchdogs :
         /\ wd[w].pc = "off"
         /\ \A v \in Watchdogs : v < w => wd[v].pc # "off"
         /\ thread_watchdog' = w
         /\ wd' = [wd EXCEPT ![w].pc = "top"]
    /\ caller' = [caller EXCEPT !.pc = "write", !.cmd = InitAckCode,
                                !.id = hist.nsend + 1,
                                !.packet = PacketConstruction(packet_count, InitAckCode,
                                                              <<<<0>>>>)]
    /\ event' = TRUE
    /\ reha_connected' = TRUE
    /\ hist.ncall < MaxCalls
    /\ hist' = [hist EXCEPT !.nsend = @ + 1, !.ncall = @ + 1,
                            !.kaFalse = [w \in Watchdogs |-> 0]]
    /\ UNCHANGED <<packet_count, time_last_cmd, packet_send_history,
                   last_ack, last_init_ack, motomed_values, last_phase_result,
                   is_motomed_connected, lock, event_ack,
                   port_out, port_in, now, reader, fnVars>>

\* _send_generic_packet(cmd, packet) for another command: the caller hands
\* in the packet it built with the current packet_count.
SendCommand ==
    /\ caller.pc = "idle"
    /\ hist.ncall < MaxCalls
    /\ caller' = [caller EXCEPT !.pc = "write", !.cmd = GetStimulationModeCode,
                                !.id = hist.nsend + 1,
                                !.packet = PacketConstruction(packet_count,
                                                              GetStimulationModeCode, None)]
    /\ hist' = [hist EXCEPT !.nsend = @ + 1, !.ncall = @ + 1]
    /\ UNCHANGED <<objectVars, port_out, port_in, now, wd, reader, fnVars>>

\* The condition of line 268 without its second operand: is_connected never
\* looks at the flag.
NotConnectedIgnoringFlag == time_last_cmd - now > LivenessWindow

\* is_connected, lines 268-272: the condition of line 268.
NotConnected == (time_last_cmd - now > LivenessWindow) \/ ~reha_connected

IsConnectedCall(by) ==
    [called |-> TRUE, by |-> by, flag |-> reha_connected,
     stale |-> now - time_last_cmd >= LivenessWindow, ret |-> ~NotConnected,
     after |-> IF NotConnected THEN FALSE ELSE reha_connected]

IsConnected ==
    /\ caller.pc = "idle"
    /\ hist.ncall < MaxCalls
    /\ reha_connected' = IF NotConnected THEN FALSE ELSE reha_connected
    /\ hist' = [hist EXCEPT !.ncall = @ + 1, !.ic = IsConnectedCall(Caller)]
    /\ UNCHANGED <<packet_count, time_last_cmd, packet_send_history,
                   last_ack, last_init_ack, motomed_values, last_phase_result,
                   is_motomed_connected, thread_watchdog, lock, event, event_ack,
                   port_out, port_in, now, caller, wd, reader, fnVars>>

\* disconnect -> _stop_watchdog, line 459; with no watchdog thread ever
\* started, line 460 raises AttributeError and disconnect ends there.
Disconnect ==
    /\ caller.pc = "idle"
    /\ hist.ncall < MaxCalls
    /\ reha_connected' = FALSE
    /\ caller' = [caller EXCEPT !.pc = IF thread_watchdog = NoThread
                                          THEN "idle" ELSE "join_wd"]
    /\ hist' = [hist EXCEPT !.ncall = @ + 1]
    /\ UNCHANGED <<packet_count, time_last_cmd, packet_send_history,
                   last_ack, last_init_ack, motomed_values, last_phase_result,
                   is_motomed_connected, thread_watchdog, lock, event, event_ack,
                   port_out, port_in, now, wd, reader, fnVars>>

\* line 460 returns when the watchdog thread has ended; then lines 442-443
\* and 466: with a Motomed session, the reader's flag is cleared.
JoinWatchdog ==
    /\ caller.pc = "join_wd"
    /\ wd[thread_watchdog].pc = "done"
    /\ is_motomed_connected' = FALSE
    /\ caller' = [caller EXCEPT !.pc = IF is_motomed_connected THEN "join_rd" ELSE "idle"]
    /\ UNCHANGED <<packet_count, time_last_cmd, reha_connected, packet_send_history,
                   last_ack, last_init_ack, motomed_values, last_phase_result,
                   thread_watchdog, lock, event, event_ack,
                   port_out, port_in, now, wd, reader, fnVars, hist>>

\* line 467 returns when the reader thread has ended.
JoinMotomed ==
    /\ caller.pc = "join_rd"
    /\ reader.pc = "done"
    /\ caller' = [caller EXCEPT !.pc = "idle"]
    /\ UNCHANGED <<objectVars, port_out, port_in, now, wd, reader, fnVars, hist>>

-----------------------------------------------------------------------------
(* The watchdog loop, lines 255-258, run by thread w.                      *)

\* line 256
Due == now - time_last_cmd > WatchdogPeriod

\* _packet_watchdog, line 478
PacketWatchdog == PacketConstruction(packet_count, WatchdogCode, None)

\* One pass over lines 255-257: is_connected() reads the flag (line 268);
\* connected and due, the keep-alive packet is built from packet_count (lines
\* 280-281); connected and not due, the loop spins, which changes nothing.
WatchdogTop(w) ==
    /\ wd[w].pc = "top"
    /\ NotConnected \/ Due
    /\ IF NotConnected
          THEN /\ wd' = [wd EXCEPT ![w].pc = "markFalse"]
               /\ hist' = [hist EXCEPT !.ic = IsConnectedCall(w)]
          ELSE /\ wd' = [wd EXCEPT ![w] = [@ EXCEPT !.pc = "write",
                                                   !.cmd = WatchdogCode,
                                                   !.id = hist.nsend + 1,
                                                   !.packet = PacketWatchdog]]
               /\ hist' = [hist EXCEPT !.ic = IsConnectedCall(w), !.nsend = @ + 1]
    /\ UNCHANGED <<objectVars, port_out, port_in, now, caller, reader, fnVars>>

\* lines 269-270 of is_connected, then the loop and the thread end.
WatchdogMarkFalse(w) ==
    /\ wd[w].pc = "markFalse"
    /\ reha_connected' = FALSE
    /\ wd' = [wd EXCEPT ![w].pc = "done"]
    /\ UNCHANGED <<packet_count, time_last_cmd, packet_send_history,
                   last_ack, last_init_ack, motomed_values, last_phase_result,
                   is_motomed_connected, thread_watchdog, lock, event, event_ack,
                   port_out, port_in, now, caller, reader, fnVars, hist>>

\* line 258: time.sleep(0.5) ends
WatchdogWake(w) ==
    /\ wd[w].pc = "sleep"
    /\ now >= wd[w].wake
    /\ wd' = [wd EXCEPT ![w].pc = "top"]
    /\ UNCHANGED <<objectVars, port_out, port_in, now, caller, reader, fnVars, hist>>

WatchdogStep(w) ==
    WatchdogTop(w) \/ WatchdogMarkFalse(w) \/ WatchdogWake(w) \/ SendStep(w)

-----------------------------------------------------------------------------
(* The Motomed reader loop, lines 149-176.                                 *)

\* line 425
Complete(packet) == Len(packet) > 0 /\ packet[Len(packet)] = STOP_BYTE

\* line 151, reached at the start and after the sleep of line 176
ReaderTop ==
    /\ reader.pc = "top"
    /\ reader' = [reader EXCEPT !.pc = IF is_motomed_connected THEN "poll" ELSE "done",
                                !.acc = << >>, !.packets = << >>]
    /\ UNCHANGED <<objectVars, port_out, port_in, now, caller, wd, fnVars, hist>>

\* _read_packet, lines 420-426: one pass of the accumulation loop that reads
\* bytes; with nothing to read and no complete buffer the loop spins.
ReaderRead ==
    /\ reader.pc = "poll"
    /\ port_in # << >>
    /\ reader' = [reader EXCEPT !.acc = @ \o port_in]
    /\ port_in' = << >>
    /\ UNCHANGED <<objectVars, port_out, now, caller, wd, fnVars, hist>>

\* lines 425-435 and 154: the loop ends on a complete buffer; the list goes
\* to the dispatcher, None sends the loop to its sleep, ValueError ends the
\* thread.
ReaderSplit ==
    /\ reader.pc = "poll"
    /\ port_in = << >>
    /\ Complete(reader.acc)
    /\ LET r == PacketList(reader.acc)
       IN  reader' = [reader EXCEPT
                        !.pc = IF r.ret = "ValueError" THEN "done"
                               ELSE IF r.list = << >> THEN "top" ELSE "dispatch",
                        !.crashed = (r.ret = "ValueError"),
                        !.packets = r.list,
                        !.acc = << >>]
    /\ UNCHANGED <<objectVars, port_out, port_in, now, caller, wd, fnVars, hist>>

\* Dispatch with line 169 storing the frame in the generic mailbox as well.
DispatchInitToBoth(packet) ==
    LET same == [last_ack |-> last_ack, last_init_ack |-> last_init_ack,
                 motomed_values |-> motomed_values,
                 last_phase_result |-> last_phase_result,
                 event |-> event, event_ack |-> event_ack, raised |-> FALSE]
    IN  IF Len(packet) > 7
        THEN LET code == At(packet, 6) IN
             IF code = PhaseResultCode
                THEN LET d == PhaseResultDecode(packet) IN
                     IF d.ok
                        THEN [same EXCEPT !.last_phase_result =
                                 RingAppend(last_phase_result, d, max_phase_result)]
                        ELSE [same EXCEPT !.raised = TRUE]
             ELSE IF code = ActualValuesCode
                THEN LET d == ActualValuesDecode(packet) IN
                     IF d.ok
                        THEN [same EXCEPT !.motomed_values =
                                 RingAppend(motomed_values, d, max_motomed_values)]
                        ELSE [same EXCEPT !.raised = TRUE]
             ELSE IF code = ReservedCode THEN same
             ELSE IF code = MotomedCommandDoneCode THEN [same EXCEPT !.event = TRUE]
             ELSE IF code \in TypeValues
                THEN IF code = 1
                        THEN [same EXCEPT !.last_init_ack = packet, !.last_ack = packet,
                                          !.event_ack = TRUE]
                        ELSE [same EXCEPT !.last_ack = packet, !.event_ack = TRUE]
             ELSE same
        ELSE same

\* lines 156-173 for one packet: the fields of the object the dispatcher
\* writes, and whether a decoder raised IndexError.
Dispatch(packet) ==
    LET same == [last_ack |-> last_ack, last_init_ack |-> last_init_ack,
                 motomed_values |-> motomed_values,
                 last_phase_result |-> last_phase_result,
                 event |-> event, event_ack |-> event_ack, raised |-> FALSE]
    IN  IF Len(packet) > 7
        THEN LET code == At(packet, 6) IN
             IF code = PhaseResultCode
                THEN LET d == PhaseResultDecode(packet) IN
                     IF d.ok
                        THEN [same EXCEPT !.last_phase_result =
                                 RingAppend(last_phase_result, d, max_phase_result)]
                        ELSE [same EXCEPT !.raised = TRUE]
             ELSE IF code = ActualValuesCode
                THEN LET d == ActualValuesDecode(packet) IN
                     IF d.ok
                        THEN [same EXCEPT !.motomed_values =
                                 RingAppend(motomed_values, d, max_motomed_values)]
                        ELSE [same EXCEPT !.raised = TRUE]
             ELSE IF code = ReservedCode THEN same
             ELSE IF code = MotomedCommandDoneCode THEN [same EXCEPT !.event = TRUE]
             ELSE IF code \in TypeValues
                THEN IF code = 1
                        THEN [same EXCEPT !.last_init_ack = packet, !.event_ack = TRUE]
                        ELSE [same EXCEPT !.last_ack = packet, !.event_ack = TRUE]
             ELSE same
        ELSE same

\* The frames line 166 answers with the completion event, and those lines
\* 167-173 store in a mailbox.
IsCompletion(packet) ==
    Len(packet) > 7 /\ At(packet, 6) = MotomedCommandDoneCode

IsAck(packet) ==
    /\ Len(packet) > 7
    /\ At(packet, 6) \in TypeValues \ {PhaseResultCode, ActualValuesCode,
                                        MotomedCommandDoneCode}

\* The consumers the dispatcher serves: two mailboxes, two ring buffers, the
\* completion event and the ack-available event.
Consumers ==
    [last_ack |-> last_ack, last_init_ack |-> last_init_ack,
     motomed_values |-> motomed_values, last_phase_result |-> last_phase_result,
     event |-> event, event_ack |-> event_ack]

\* The for loop of line 155, one packet per step; after the last one the
\* loop sleeps and goes back to line 151.
ReaderDispatch ==
    /\ reader.pc = "dispatch"
    /\ hist' = [hist EXCEPT !.disp = [called |-> TRUE, packet |-> Head(reader.packets),
                                      before |-> Consumers,
                                      raised |-> Dispatch(Head(reader.packets)).raised],
                            !.sig = @ \/ IsCompletion(Head(reader.packets)),
                            !.stored = IF IsAck(Head(reader.packets))
                                          THEN Append(@, Head(reader.packets)) ELSE @]
    /\ LET d == Dispatch(Head(reader.packets))
           rest == Tail(reader.packets)
       IN  /\ last_ack' = d.last_ack
           /\ last_init_ack' = d.last_init_ack
           /\ motomed_values' = d.motomed_values
           /\ last_phase_result' = d.last_phase_result
           /\ event' = d.event
           /\ event_ack' = d.event_ack
           /\ reader' = [reader EXCEPT
                           !.packets = rest,
                           !.crashed = d.raised,
                           !.pc = IF d.raised THEN "done"
                                  ELSE IF rest = << >> THEN "top" ELSE "dispatch"]
    /\ UNCHANGED <<packet_count, time_last_cmd, reha_connected, packet_send_history,
                   is_motomed_connected, thread_watchdog, lock,
                   port_out, port_in, now, caller, wd, fnVars>>

ReaderStep == ReaderTop \/ ReaderRead \/ ReaderSplit \/ ReaderDispatch

-----------------------------------------------------------------------------
(* The device and the clock.                                               *)

\* Frames the device sends: an acknowledgment and a command-completion.
DeviceFrames ==
    {PacketConstruction(0, GetStimulationModeAckCode, <<<<0>>>>),
     PacketConstruction(0, MotomedCommandDoneCode, <<<<0>>>>)}

DeviceSend ==
    /\ hist.nrx < MaxRx
    /\ \E f \in DeviceFrames : port_in' = port_in \o f
    /\ hist' = [hist EXCEPT !.nrx = @ + 1]
    /\ UNCHANGED <<objectVars, port_out, now, caller, wd, reader, fnVars>>

\* A thread that has a step to take takes it before the clock moves: time
\* passes only while every thread waits (the caller between calls or in a
\* join, a watchdog loop spinning or asleep, the reader waiting for bytes, a
\* thread waiting for the lock).
SendReady(t) ==
    \/ Local(t).pc \in {"bk1", "bk2"}
    \/ Local(t).pc = "write" /\ lock = Free

CallerReady ==
    \/ SendReady(Caller)
    \/ caller.pc = "join_wd" /\ wd[thread_watchdog].pc = "done"
    \/ caller.pc = "join_rd" /\ reader.pc = "done"

WatchdogReady(w) ==
    \/ SendReady(w)
    \/ wd[w].pc = "markFalse"
    \/ wd[w].pc = "top" /\ (NotConnected \/ Due)
    \/ wd[w].pc = "sleep" /\ now >= wd[w].wake

ReaderReady ==
    \/ reader.pc \in {"top", "dispatch"}
    \/ reader.pc = "poll" /\ (port_in # << >> \/ Complete(reader.acc))

Quiescent == ~CallerReady /\ ~ReaderReady /\ \A w \in Watchdogs : ~WatchdogReady(w)

Tick ==
    /\ Quiescent
    /\ now < StartTime + MaxTicks
    /\ now' = now + 1
    /\ UNCHANGED <<objectVars, port_out, port_in, caller, wd, reader, fnVars, hist>>

-----------------------------------------------------------------------------
(* The link without a Motomed session: caller, watchdog loops and clock.   *)

CallerStep ==
    \/ SendInitAck
    \/ SendCommand
    \/ IsConnected
    \/ Disconnect
    \/ JoinWatchdog
    \/ SendStep(Caller)

Next ==
    \/ CallerStep
    \/ \E w \in Watchdogs : WatchdogStep(w)
    \/ Tick

Spec == Init /\ [][Next]_vars

-----------------------------------------------------------------------------
(* A Motomed session: the caller connects and disconnects while the reader *)
(* loop runs and the device may send frames.                               *)

SessionStep ==
    \/ SendInitAck
    \/ Disconnect
    \/ JoinWatchdog
    \/ JoinMotomed
    \/ SendStep(Caller)

NextMotomed ==
    \/ SessionStep
    \/ \E w \in Watchdogs : WatchdogStep(w)
    \/ ReaderStep
    \/ DeviceSend
    \/ Tick

SpecMotomed == InitMotomed /\ [][NextMotomed]_vars

-----------------------------------------------------------------------------
(* The codec and the reassembler as functions: frames are encoded by       *)
(* _packet_construction and handed to _read_packet as the bytes of one     *)
(* read cycle.                                                             *)

CodecCounts == {0, 1}
CodecCommands == {InitAckCode, WatchdogCode}
CodecBytes == STUFFED_BYTES \cup {0, 2}

RECURSIVE SeqsUpTo(_, _)
SeqsUpTo(S, n) ==
    IF n = 0 THEN {<< >>}
    ELSE LET shorter == SeqsUpTo(S, n - 1)
         IN  shorter \cup {Append(q, b) : q \in shorter, b \in S}

\* packet_data: None, or a list of at most MaxPayload bytes
CodecData == {None} \cup {<<d>> : d \in SeqsUpTo(CodecBytes, MaxPayload)}

RECURSIVE Concat(_)
Concat(frames) ==
    IF frames = << >> THEN << >> ELSE Head(frames) \o Concat(Tail(frames))

InitCodec ==
    /\ InitObject(FALSE)
    /\ fn_in = [args |-> << >>, frames |-> << >>]
    /\ fn_out = [done |-> FALSE]

Encode ==
    /\ ~fn_out.done
    /\ Len(fn_in.frames) < MaxFrames
    /\ \E count \in CodecCounts, cmd \in CodecCommands, data \in CodecData :
         fn_in' = [args   |-> Append(fn_in.args,
                                     [count |-> count, cmd |-> cmd, data |-> data]),
                   frames |-> Append(fn_in.frames,
                                     PacketConstruction(count, cmd, data))]
    /\ UNCHANGED <<objectVars, port_out, port_in, now, caller, wd, reader, fn_out, hist>>

\* _read_packet on a port that delivers the frames in one read: the
\* accumulation loop (lines 420-426) ends with all their bytes.
ReadCycle ==
    /\ ~fn_out.done
    /\ Complete(Concat(fn_in.frames))
    /\ LET r == PacketList(Concat(fn_in.frames))
       IN  fn_out' = [done |-> TRUE, ret |-> r.ret, list |-> r.list]
    /\ UNCHANGED <<objectVars, port_out, port_in, now, caller, wd, reader, fn_in, hist>>

NextCodec == Encode \/ ReadCycle

SpecCodec == InitCodec /\ [][NextCodec]_vars

-----------------------------------------------------------------------------
(* One sending thread: the caller makes every send itself, its first       *)
(* MaxCalls sends with any command, the later ones keep-alives; no other   *)
(* thread is scheduled.                                                    *)

\* _send_generic_packet("Watchdog", ..), lines 280-281, called by thread 0.
SendKeepAlive ==
    /\ caller.pc = "idle"
    /\ hist.nsend < MaxSends
    /\ caller' = [caller EXCEPT !.pc = "write", !.cmd = WatchdogCode,
                                !.id = hist.nsend + 1,
                                !.packet = PacketWatchdog]
    /\ hist' = [hist EXCEPT !.nsend = @ + 1]
    /\ UNCHANGED <<objectVars, port_out, port_in, now, wd, reader, fnVars>>

NextCounter ==
    \/ hist.nsend < MaxCalls /\ SendInitAck
    \/ hist.nsend < MaxCalls /\ SendCommand
    \/ SendKeepAlive
    \/ SendStep(Caller)

SpecCounter == Init /\ [][NextCounter]_vars

-----------------------------------------------------------------------------
(* Long frames: _packet_construction on payloads up to and beyond what a    *)
(* 69-byte frame can hold, and the write of the frame it returns.           *)

\* A payload of n bytes, all equal to b: an ordinary byte or a reserved one.
LongBytes == {0, 240}
LongData(n, b) == [i \in 1..n |-> b]

InitLong ==
    /\ InitObject(FALSE)
    /\ \E cmd \in CodecCommands, n \in 0..MaxLongPayload, b \in LongBytes :
         fn_in = [count |-> 0, cmd |-> cmd, data |-> LongData(n, b)]
    /\ fn_out = [done |-> FALSE, raised |-> FALSE, frame |-> << >>]

\* _packet_construction(count, cmd, data), lines 338-351: no test of the
\* frame's length, the frame is returned whatever its size.
EncodeLong ==
    /\ ~fn_out.done
    /\ fn_out' = [done |-> TRUE, raised |-> FALSE,
                  frame |-> PacketConstruction(fn_in.count, fn_in.cmd, <<fn_in.data>>)]
    /\ UNCHANGED <<objectVars, port_out, port_in, now, caller, wd, reader, fn_in, hist>>

\* _send_generic_packet with the frame built, line 286.
WriteLong ==
    /\ fn_out.done
    /\ ~fn_out.raised
    /\ port_out = << >>
    /\ port_out' = <<fn_out.frame>>
    /\ UNCHANGED <<objectVars, port_in, now, caller, wd, reader, fnVars, hist>>

NextLong == EncodeLong \/ WriteLong

SpecLong == InitLong /\ [][NextLong]_vars

-----------------------------------------------------------------------------
(* The telemetry handlers.                                                 *)

\* _actual_values_ack(packet), lines 178-205; IndexError leaves the buffer
\* as it was.
ActualValuesAck(packet) ==
    LET d == ActualValuesDecode(packet) IN
    /\ d.ok
    /\ motomed_values' = RingAppend(motomed_values, d, max_motomed_values)
    /\ hist' = [hist EXCEPT !.av = Append(@, d)]
    /\ UNCHANGED <<packet_count, time_last_cmd, reha_connected, packet_send_history,
                   last_ack, last_init_ack, last_phase_result,
                   is_motomed_connected, thread_watchdog, lock, event, event_ack,
                   port_out, port_in, now, caller, wd, reader>>

\* _phase_result_ack(packet), lines 207-249
PhaseResultAck(packet) ==
    LET d == PhaseResultDecode(packet) IN
    /\ d.ok
    /\ last_phase_result' = RingAppend(last_phase_result, d, max_phase_result)
    /\ hist' = [hist EXCEPT !.pr = Append(@, d)]
    /\ UNCHANGED <<packet_count, time_last_cmd, reha_connected, packet_send_history,
                   last_ack, last_init_ack, motomed_values,
                   is_motomed_connected, thread_watchdog, lock, event, event_ack,
                   port_out, port_in, now, caller, wd, reader>>

\* A telemetry frame as the device sends it: start, marker, checksum, marker,
\* length, sequence number, command code, the data bytes, stop. The receive
\* path reads neither the checksum nor the length.
TelemetryFrame(code, body) ==
    <<START_BYTE, STUFFING_BYTE, 0, STUFFING_BYTE, 0, 0, code>> \o body \o <<STOP_BYTE>>

\* ---- one Actual-Values frame decoded, its bytes 7..14 drawn from a plain
\* byte, the escape marker and a byte with the sign bit set
DecodeBytes == {1, 129, 200}

AllSeqs(S, n) == {q \in SeqsUpTo(S, n) : Len(q) = n}

InitDecode ==
    /\ InitObject(TRUE)
    /\ \E body \in AllSeqs(DecodeBytes, 8) :
         fn_in = TelemetryFrame(ActualValuesCode, body)
    /\ fn_out = [done |-> FALSE]

DecodeOne ==
    /\ ~fn_out.done
    /\ ActualValuesAck(fn_in)
    /\ fn_out' = [done |-> TRUE]
    /\ UNCHANGED fn_in

NextDecode == DecodeOne

SpecDecode == InitDecode /\ [][NextDecode]_vars

\* ---- a stream of telemetry frames: the k-th frame of a kind carries k in
\* its first two data bytes
StreamBody(k) ==
    <<0, k \div 100, k % 100, 0, 0, 0>> \o [i \in 1..10 |-> 0]

InitRing ==
    /\ InitObject(TRUE)
    /\ fn_in = << >>
    /\ fn_out = << >>

NextActualValues ==
    /\ Len(hist.av) < MaxSamples
    /\ ActualValuesAck(TelemetryFrame(ActualValuesCode, Tail(StreamBody(Len(hist.av) + 1))))
    /\ UNCHANGED fnVars

NextPhaseResult ==
    /\ Len(hist.pr) < MaxPhases
    /\ PhaseResultAck(TelemetryFrame(PhaseResultCode, StreamBody(Len(hist.pr) + 1)))
    /\ UNCHANGED fnVars

NextRing == NextActualValues \/ NextPhaseResult

SpecRing == InitRing /\ [][NextRing]_vars

-----------------------------------------------------------------------------
(* The reader loop alone: the device delivers frames of every kind, whole  *)
(* or truncated, and the loop reassembles and dispatches them.             *)

\* A code the command table does not hold.
UnknownCode == 200

\* Frames of 23 bytes, long enough for every decoder, and telemetry frames
\* of 10 bytes, too short for the fixed offsets of theirs.
ReaderFrames ==
    {TelemetryFrame(code, StreamBody(1)) :
        code \in {PhaseResultCode, ActualValuesCode, ReservedCode, MotomedCommandDoneCode,
                  InitCode, InitAckCode, GetStimulationModeAckCode, UnknownCode}}
    \cup {TelemetryFrame(code, <<0, 0>>) : code \in {PhaseResultCode, ActualValuesCode}}

DeviceDeliver ==
    /\ hist.nrx < MaxDeliveries
    /\ \E f \in ReaderFrames : port_in' = port_in \o f
    /\ hist' = [hist EXCEPT !.nrx = @ + 1]
    /\ UNCHANGED <<objectVars, port_out, now, caller, wd, reader, fnVars>>

NextReader == ReaderStep \/ DeviceDeliver

SpecReader == InitMotomed /\ [][NextReader]_vars

-----------------------------------------------------------------------------
(* Commands and acknowledgments in a Motomed session: the caller sends    *)
(* commands and fetches acknowledgments with _get_last_ack while the       *)
(* reader loop dispatches what the device delivers. No InitAck is sent, so *)
(* no watchdog runs.                                                       *)

\* _get_last_ack(init), lines 119-121 and 126: the call, up to its wait loop.
GetLastAckCall ==
    /\ caller.pc = "idle"
    /\ hist.ncall < MaxCalls
    /\ is_motomed_connected
    /\ \E init \in BOOLEAN :
         caller' = [caller EXCEPT !.pc = IF init THEN "ack_init" ELSE "ack"]
    /\ hist' = [hist EXCEPT !.ncall = @ + 1]
    /\ UNCHANGED <<objectVars, port_out, port_in, now, wd, reader, fnVars>>

\* lines 121-123 and 126-128: the wait loop ends on a mailbox that holds a
\* frame, and the frame is read.
GetLastAckRead ==
    /\ caller.pc \in {"ack", "ack_init"}
    /\ LET mailbox == IF caller.pc = "ack_init" THEN last_init_ack ELSE last_ack
       IN  /\ mailbox # None
           /\ caller' = [caller EXCEPT !.pc = IF caller.pc = "ack_init"
                                                 THEN "clear_init" ELSE "clear",
                                       !.packet = mailbox]
    /\ UNCHANGED <<objectVars, port_out, port_in, now, wd, reader, fnVars, hist>>

\* lines 124 and 129-130: the mailbox is emptied and the frame read before
\* is returned.
GetLastAckReturn ==
    /\ caller.pc \in {"clear", "clear_init"}
    /\ IF caller.pc = "clear_init"
          THEN last_init_ack' = None /\ UNCHANGED last_ack
          ELSE last_ack' = None /\ UNCHANGED last_init_ack
    /\ caller' = [caller EXCEPT !.pc = "idle", !.packet = << >>]
    /\ hist' = [hist EXCEPT !.returned = Append(@, caller.packet)]
    /\ UNCHANGED <<packet_count, time_last_cmd, reha_connected, packet_send_history,
                   motomed_values, last_phase_result,
                   is_motomed_connected, thread_watchdog, lock, event, event_ack,
                   port_out, port_in, now, wd, reader, fnVars>>

GetLastAck == GetLastAckCall \/ GetLastAckRead \/ GetLastAckReturn

\* The device's answers: an acknowledgment, an Init, a command completion;
\* the n-th frame delivered carries n in its first data byte.
AckCodes == {GetStimulationModeAckCode, InitCode, MotomedCommandDoneCode}

DeviceAnswer ==
    /\ hist.nrx < MaxDeliveries
    /\ \E code \in AckCodes :
         port_in' = port_in \o TelemetryFrame(code, <<hist.nrx + 1, 0>>)
    /\ hist' = [hist EXCEPT !.nrx = @ + 1]
    /\ UNCHANGED <<objectVars, port_out, now, caller, wd, reader, fnVars>>

NextAck ==
    \/ SendCommand
    \/ SendStep(Caller)
    \/ GetLastAck
    \/ ReaderStep
    \/ DeviceAnswer

SpecAck == InitMotomed /\ [][NextAck]_vars

-----------------------------------------------------------------------------
(* A transport that can fail: port.write of a keep-alive raises.           *)

\* lines 285-286 in thread w: lock.acquire() succeeds and port.write raises.
\* Nothing catches the exception, in _send_generic_packet (no try/finally
\* around lines 285-291) or in _watchdog (lines 255-258): line 291 is never
\* reached, the lock stays held by w, and the thread ends.
WriteFails(w) ==
    /\ wd[w].pc = "write"
    /\ lock = Free
    /\ lock' = w
    /\ wd' = [wd EXCEPT ![w].pc = "done"]
    /\ UNCHANGED <<packet_count, time_last_cmd, reha_connected, packet_send_history,
                   last_ack, last_init_ack, motomed_values, last_phase_result,
                   is_motomed_connected, thread_watchdog, event, event_ack,
                   port_out, port_in, now, caller, reader, fnVars, hist>>

NextFailure ==
    \/ Next
    \/ \E w \in Watchdogs : WriteFails(w)

SpecFailure == Init /\ [][NextFailure]_vars

-----------------------------------------------------------------------------
(* Acknowledgments without a Motomed session: _get_last_ack reads the port *)
(* itself, one _read_packet cycle after the other.                         *)

\* _get_last_ack, lines 119 and 131-132: the call, up to its first read
\* cycle; tmp counts the read cycles the call has completed.
GetLastAckPollCall ==
    /\ caller.pc = "idle"
    /\ hist.ncall < MaxCalls
    /\ ~is_motomed_connected
    /\ caller' = [caller EXCEPT !.pc = "ack_poll", !.tmp = 0]
    /\ hist' = [hist EXCEPT !.ncall = @ + 1]
    /\ UNCHANGED <<objectVars, port_out, port_in, now, wd, reader, fnVars>>

\* One pass over lines 132-135: _read_packet accumulates what the port holds
\* until a read is empty and the bytes end with a stop byte (lines 420-426),
\* and returns a list or None (lines 427-435); the loop ends on a list that
\* is not empty and line 138 returns its last frame. A ValueError of line
\* 429 ends the call.
GetLastAckPoll ==
    /\ caller.pc = "ack_poll"
    /\ Complete(port_in)
    /\ port_in' = << >>
    /\ LET packet == PacketList(port_in)
       IN  IF packet.ret = "list" /\ Len(packet.list) # 0
              THEN /\ caller' = [caller EXCEPT !.pc = "idle", !.tmp = 0]
                   /\ hist' = [hist EXCEPT
                                 !.returned = Append(@, packet.list[Len(packet.list)])]
              ELSE /\ caller' = [caller EXCEPT
                                   !.pc = IF packet.ret = "ValueError"
                                             THEN "idle" ELSE "ack_poll",
                                   !.tmp = @ + 1]
                   /\ UNCHANGED hist
    /\ UNCHANGED <<objectVars, port_out, now, wd, reader, fnVars>>

\* The device's acknowledgments: complete frames of every length the codec
\* produces, from the 8 bytes of a frame without data.
DeviceAck ==
    /\ hist.nrx < MaxDeliveries
    /\ \E count \in CodecCounts, data \in CodecData :
         port_in' = port_in \o PacketConstruction(count, GetStimulationModeAckCode, data)
    /\ hist' = [hist EXCEPT !.nrx = @ + 1]
    /\ UNCHANGED <<objectVars, port_out, now, caller, wd, reader, fnVars>>

NextPoll == GetLastAckPollCall \/ GetLastAckPoll \/ DeviceAck

SpecPoll == Init /\ [][NextPoll]_vars

-----------------------------------------------------------------------------
(* The reassembler on a line with noise: the bytes of one read cycle are   *)
(* frames of the codec with stray bytes before, between and after them.    *)

StrayBytes == {0, 2}

\* Acknowledgments of the device: without data, and with one data byte that
\* is sent as it is or stuffed.
BufferFrames ==
    {PacketConstruction(count, GetStimulationModeAckCode, data) :
        count \in CodecCounts, data \in {None, <<<<0>>>>, <<<<STOP_BYTE>>>>}}

InitBuffer ==
    /\ InitObject(FALSE)
    /\ fn_in = [buffer |-> << >>, frames |-> 0, stray |-> 0]
    /\ fn_out = [done |-> FALSE]

\* port.read (line 421) delivers a frame of the device
ReceiveFrame ==
    /\ ~fn_out.done
    /\ fn_in.frames < MaxFrames
    /\ \E f \in BufferFrames :
         fn_in' = [fn_in EXCEPT !.buffer = @ \o f, !.frames = @ + 1]
    /\ UNCHANGED <<objectVars, port_out, port_in, now, caller, wd, reader, fn_out, hist>>

\* port.read (line 421) delivers a byte that belongs to no frame
ReceiveStray ==
    /\ ~fn_out.done
    /\ fn_in.stray < MaxStray
    /\ \E b \in StrayBytes :
         fn_in' = [fn_in EXCEPT !.buffer = Append(@, b), !.stray = @ + 1]
    /\ UNCHANGED <<objectVars, port_out, port_in, now, caller, wd, reader, fn_out, hist>>

\* lines 424-435: a read is empty, the accumulated bytes end with a stop
\* byte, and _read_packet returns what it makes of them.
ReadBuffer ==
    /\ ~fn_out.done
    /\ Complete(fn_in.buffer)
    /\ LET r == PacketList(fn_in.buffer)
       IN  fn_out' = [done |-> TRUE, ret |-> r.ret, list |-> r.list]
    /\ UNCHANGED <<objectVars, port_out, port_in, now, caller, wd, reader, fn_in, hist>>

NextBuffer == ReceiveFrame \/ ReceiveStray \/ ReadBuffer

SpecBuffer == InitBuffer /\ [][NextBuffer]_vars

-----------------------------------------------------------------------------
(* Properties.                                                             *)

Writes == hist.writes
IsKeepAlive(i) == Writes[i].cmd = WatchdogCode
IsInitAck(i) == Writes[i].cmd = InitAckCode

\* C1: frames are written to the transport in the order their sends were
\* started, and the sequence numbers of successively written frames increase
\* by exactly one modulo 256.
C1_WrittenInOrderWithConsecutiveNumbers ==
    /\ \A i \in 1..(Len(Writes) - 1) : Writes[i].id < Writes[i + 1].id
    /\ \A i \in 1..(Len(port_out) - 1) :
         FrameSeq(port_out[i + 1]) = (FrameSeq(port_out[i]) + 1) % 256

\* C2: is_connected() returns true exactly when the connected flag is set and
\* less than 1.2 s have passed since the last transmitted command; when it
\* returns false the flag is false afterwards.
C2_ConnectedIffFlagAndFresh ==
    hist.ic.called =>
        /\ hist.ic.ret <=> (hist.ic.flag /\ ~hist.ic.stale)
        /\ ~hist.ic.ret => ~hist.ic.after

Commands == {i \in 1..Len(Writes) : ~IsKeepAlive(i)}
KeepAlivesAfter(i) == Cardinality({j \in (i + 1)..Len(Writes) : IsKeepAlive(j)})

\* C4: while the link is connected and the caller is not sending, a
\* keep-alive is never written less than 0.5 s after the frame written
\* before it, and once the link has been idle for exactly 600 ms since the
\* caller's last command, exactly one keep-alive has been written.
C4_OneKeepAlivePerIdlePeriod ==
    /\ \A i \in 2..Len(Writes) :
         (IsKeepAlive(i) /\ Writes[i].idle /\ Writes[i].flag)
         => Writes[i].time - Writes[i - 1].time >= WatchdogPeriod
    /\ \A i \in Commands :
         (/\ i = Len(Writes) \/ \A j \in (i + 1)..Len(Writes) : IsKeepAlive(j)
          /\ reha_connected
          /\ caller.pc = "idle"
          /\ Quiescent
          /\ now = Writes[i].time + WatchdogPeriod + 1)
         => KeepAlivesAfter(i) = 1

\* A thread can take a step now, or will when its sleep ends.
CanProgress ==
    \/ CallerReady
    \/ ReaderReady
    \/ \E w \in Watchdogs : WatchdogReady(w) \/ wd[w].pc = "sleep"

\* C5: disconnect() returns whether or not the device sends further bytes:
\* while it waits in a join, some thread of the program can go on without
\* the device.
C5_DisconnectReturnsWithoutDevice ==
    caller.pc \in {"join_wd", "join_rd"} => CanProgress

\* C6: the InitAck frame is written before the link is marked connected and
\* before the watchdog loop is started, so no keep-alive frame is written
\* before the first InitAck frame.
C6_InitAckBeforeConnectedAndWatchdog ==
    LET initAckWritten == \E j \in 1..Len(Writes) : IsInitAck(j) IN
    /\ reha_connected => initAckWritten
    /\ (\E w \in Watchdogs : wd[w].pc # "off") => initAckWritten
    /\ \A i \in 1..Len(Writes) :
         IsKeepAlive(i) => \E j \in 1..(i - 1) : IsInitAck(j)

\* C7: two complete frames delivered in one read cycle come back as a list
\* of exactly these two frames, in arrival order.
C7_TwoFramesSplit ==
    (fn_out.done /\ Len(fn_in.frames) = 2) =>
        /\ fn_out.ret = "list"
        /\ fn_out.list = fn_in.frames

\* The decoder a receiver applies to the data bytes of a frame: drop the
\* marker 0x81 and undo the transform on the byte after it.
RECURSIVE Unstuff(_)
Unstuff(block) ==
    IF block = << >> THEN << >>
    ELSE IF Head(block) = STUFFING_BYTE /\ Len(block) > 1
         THEN <<XorKey(block[2], STUFFING_KEY)>> \o Unstuff(SliceFrom(block, 2))
         ELSE <<Head(block)>> \o Unstuff(Tail(block))

\* The data bytes of a frame: after the two header bytes, before the stop.
DataBlock(frame) == Slice(frame, 7, Len(frame) - 1)

RECURSIVE Reserved(_)
Reserved(data) ==
    IF data = << >> THEN 0
    ELSE (IF Head(data) \in STUFFED_BYTES THEN 1 ELSE 0) + Reserved(Tail(data))

\* C10: a frame encoded with a payload that holds reserved bytes, alone or
\* with ordinary bytes, and read back in one read cycle comes back as that
\* single frame, its data bytes unstuff to the payload, and each reserved
\* payload byte has taken two bytes.
C10_EncodeReadRoundTrip ==
    (/\ fn_out.done
     /\ Len(fn_in.frames) = 1
     /\ fn_in.args[1].data # None
     /\ Reserved(fn_in.args[1].data[1]) >= 1)
    => /\ fn_out.ret = "list"
       /\ fn_out.list = fn_in.frames
       /\ Unstuff(DataBlock(fn_out.list[1])) = fn_in.args[1].data[1]
       /\ Len(DataBlock(fn_in.frames[1]))
            = Len(fn_in.args[1].data[1]) + Reserved(fn_in.args[1].data[1])

\* What C8 states for an Actual-Values packet p: each field is read at its
\* position shifted by the number of escaped fields before it, and an
\* escaped byte is transformed back before it is used.
ExpectedField(p, pos) ==
    IF At(p, pos) = STUFFING_BYTE
       THEN SignedInt(<<XorKey(At(p, pos + 1), STUFFING_KEY)>>)
       ELSE SignedInt(<<At(p, pos)>>)

Shift(p, pos) == IF At(p, pos) = STUFFING_BYTE THEN 1 ELSE 0

ExpectedActualValues(p) ==
    LET count1 == Shift(p, 8)
        count2 == count1 + Shift(p, 10 + count1)
    IN  [ok     |-> TRUE,
         angle  |-> 255 * SignedInt(<<At(p, 7)>>)
                    + (IF count1 = 1 THEN XorKey(At(p, 9), STUFFING_KEY) ELSE At(p, 8)),
         speed  |-> ExpectedField(p, 10 + count1),
         torque |-> ExpectedField(p, 12 + count2)]

\* C8: the decoded sample is the escape-aware reading of the packet with a
\* cumulative offset.
C8_EscapeAwareDecode ==
    fn_out.done => motomed_values[Len(motomed_values)] = ExpectedActualValues(fn_in)

\* The last n elements of a sequence.
LastN(q, n) == IF Len(q) <= n THEN q ELSE SubSeq(q, Len(q) - n + 1, Len(q))

\* C9: the Actual-Values buffer holds the last min(M, 100) decoded samples
\* in order, the Phase-Result buffer the most recent one.
C9_RingBuffersKeepLatest ==
    /\ motomed_values = LastN(hist.av, 100)
    /\ Len(motomed_values) <= 100
    /\ last_phase_result = LastN(hist.pr, 1)
    /\ Len(last_phase_result) <= 1

\* C9 witness: more than 100 Actual-Values samples and more than one
\* Phase-Result sample have been decoded, so both buffers have evicted.
C9_BuffersHaveEvicted ==
    /\ Len(hist.av) > 100
    /\ Len(hist.pr) > 1
    /\ Len(motomed_values) = 100
    /\ motomed_values[1] = hist.av[Len(hist.av) - 99]

\* C11: a frame the encoder returns has at most 69 bytes; a payload that
\* would make it longer makes the encoder fail, and then no frame is
\* returned or written to the transport.
C11_FrameAtMost69Bytes ==
    /\ fn_out.done =>
         /\ Len(fn_out.frame) <= MAX_PACKET_BYTES
         /\ fn_out.raised <=>
              (5 + 2 + Len(StuffData(fn_in.data)) + 1 > MAX_PACKET_BYTES)
    /\ \A i \in 1..Len(port_out) : Len(port_out[i]) <= MAX_PACKET_BYTES

\* C12: with one sending thread, every completed call of
\* _send_generic_packet has advanced the sequence counter by exactly one
\* modulo 256: after n completed sends from a fresh object the counter is
\* n mod 256, it stays in 0..255, and a send in progress leaves it at the
\* value of the sends completed before it until its own store.
C12_CounterAdvancesByOneMod256 ==
    /\ packet_count \in 0..255
    /\ caller.pc = "idle" => packet_count = hist.nsend % 256
    /\ caller.pc # "idle" => packet_count = (hist.nsend - 1) % 256

\* C12 witness: 256 sends have completed, among them an InitAck and another
\* command, and the counter is back at its starting value.
C12_CounterWrapped ==
    /\ hist.nsend = 256
    /\ caller.pc = "idle"
    /\ packet_count = 0
    /\ \E i \in 1..Len(Writes) : IsInitAck(i)
    /\ \E i \in 1..Len(Writes) : Writes[i].cmd = GetStimulationModeCode

\* The consumers after the last dispatch, the code of the frame dispatched,
\* and the consumers the dispatch has left as they were.
Dispatched == hist.disp.called
DispatchedCode == At(hist.disp.packet, 6)
ConsumerNames == {"last_ack", "last_init_ack", "motomed_values", "last_phase_result",
                  "event", "event_ack"}
OnlyChanged(names) ==
    \A f \in ConsumerNames \ names : Consumers[f] = hist.disp.before[f]

\* What every reading of C13 states for telemetry, reserved and completion
\* frames: a telemetry frame appends its sample to its own buffer only, the
\* reserved code changes nothing, a completion only sets the completion
\* event.
RoutesTelemetry ==
    /\ DispatchedCode = PhaseResultCode =>
         /\ OnlyChanged({"last_phase_result"})
         /\ ~hist.disp.raised =>
              last_phase_result[Len(last_phase_result)]
                = PhaseResultDecode(hist.disp.packet)
    /\ DispatchedCode = ActualValuesCode =>
         /\ OnlyChanged({"motomed_values"})
         /\ ~hist.disp.raised =>
              motomed_values[Len(motomed_values)] = ActualValuesDecode(hist.disp.packet)
    /\ DispatchedCode = ReservedCode => OnlyChanged({})
    /\ DispatchedCode = MotomedCommandDoneCode => OnlyChanged({"event"}) /\ event

\* A frame with code initCode goes to the init-ack mailbox only, a frame with
\* another recognized code to the generic mailbox only; both signal
\* ack-available.
RoutesAcks(initCode) ==
    /\ DispatchedCode = initCode =>
         /\ OnlyChanged({"last_init_ack", "event_ack"})
         /\ last_init_ack = hist.disp.packet
         /\ event_ack
    /\ DispatchedCode \in (TypeValues \ {PhaseResultCode, ActualValuesCode,
                                         MotomedCommandDoneCode, initCode}) =>
         /\ OnlyChanged({"last_ack", "event_ack"})
         /\ last_ack = hist.disp.packet
         /\ event_ack

\* C13 as stated: the frame with the InitAck code is stored in the init-ack
\* mailbox only, every other recognized code in the generic mailbox only, and
\* telemetry, reserved and completion frames touch no mailbox.
C13_RoutesInitAckToInitMailbox ==
    Dispatched => RoutesTelemetry /\ RoutesAcks(InitAckCode)

\* C13 as amended: the frame stored in the init-ack mailbox is the one with
\* command code 1 (Init); every other recognized code, InitAck included, goes
\* to the generic mailbox only, and telemetry, reserved and completion frames
\* touch no mailbox.
C13_RoutesCodeOneToInitMailbox ==
    Dispatched => RoutesTelemetry /\ RoutesAcks(InitCode)

\* C13 witness: a frame with code 1 has been dispatched while the generic
\* mailbox held an earlier frame, and is in the init-ack mailbox.
C13_InitFrameDispatched ==
    /\ Dispatched
    /\ DispatchedCode = InitCode
    /\ hist.disp.before.last_ack # None
    /\ last_init_ack = hist.disp.packet
    /\ last_ack = hist.disp.before.last_ack

\* C15: a decoder that fails on a frame (IndexError on a truncated telemetry
\* frame) does not end the reader loop: after such a dispatch the loop is
\* still running.
C15_ReaderSurvivesDecodeError ==
    (Dispatched /\ hist.disp.raised) => reader.pc # "done"

\* C14: the completion event is reset before the frame of a send is
\* written, so a completion signalled after that write stays set until the
\* next send is written.
C14_CompletionSurvivesItsSend ==
    hist.sig => event

\* Where a stored frame is while it waits for its _get_last_ack call: in the
\* mailbox of its kind, or read by a call that has not yet returned.
InMailbox(f) ==
    IF At(f, 6) = 1 THEN last_init_ack = f ELSE last_ack = f

HeldByCaller(f) ==
    /\ caller.packet = f
    /\ caller.pc = (IF At(f, 6) = 1 THEN "clear_init" ELSE "clear")

Returns(f) == {i \in 1..Len(hist.returned) : hist.returned[i] = f}

\* C17: a frame the dispatcher has stored in a mailbox is not overwritten or
\* cleared before a _get_last_ack call of its kind has returned it, and no
\* frame is returned twice.
C17_EveryAckReturnedOnce ==
    \A i \in 1..Len(hist.stored) :
        LET f == hist.stored[i] IN
        /\ Cardinality(Returns(f)) <= 1
        /\ Returns(f) = {} => InMailbox(f) \/ HeldByCaller(f)

\* The watchdog threads that have been started and have not ended.
LiveWatchdogs == {w \in Watchdogs : wd[w].pc \notin {"off", "done"}}

\* C20: at most one watchdog loop is running at any time: whatever InitAck
\* sends and disconnects the caller has made, the number of watchdog threads
\* that are started and have not ended is 0 or 1.
C20_AtMostOneWatchdogLoop == Cardinality(LiveWatchdogs) <= 1

\* The keep-alive write of thread w has failed: w acquired the lock on line
\* 285 and never reached line 291.
WriteFailed(w) == lock = w

\* C16: a transport write failure during a keep-alive does not end the
\* watchdog loop and does not block the caller: while the link is connected
\* the thread whose write failed is still in its loop, and the caller never
\* waits for a lock that the failed send has kept.
C16_WriteFailureLeavesLoopAndCaller ==
    \A w \in Watchdogs :
        WriteFailed(w) =>
            /\ reha_connected => wd[w].pc # "done"
            /\ ~(caller.pc = "write" /\ lock # Free)

\* C18: without a Motomed session _get_last_ack returns as soon as one read
\* cycle has read a complete acknowledgment frame, whatever the frame's
\* length, the 8 bytes of a frame without data included: a call never needs
\* a second read cycle.
C18_ReturnsOnFirstCompleteFrame == caller.pc = "ack_poll" => caller.tmp = 0

\* A candidate frame that begins with the start marker, ends with the stop
\* marker and holds no other stop marker.
MarkerBounded(f) ==
    /\ Len(f) >= 2
    /\ f[1] = START_BYTE
    /\ f[Len(f)] = STOP_BYTE
    /\ \A i \in 1..(Len(f) - 1) : f[i] # STOP_BYTE

\* C19: every candidate frame that _read_packet returns is marker-bounded,
\* for every accumulated buffer longer than 8 bytes that ends with the stop
\* marker, stray bytes before the first frame or between two frames included.
C19_CandidatesAreMarkerBounded ==
    (fn_out.done /\ fn_out.ret = "list") =>
        \A i \in 1..Len(fn_out.list) : MarkerBounded(fn_out.list[i])

====
